---- MODULE Spec2Model ----
(***************************************************************************)
(* TweetLabeler: the annotation store held by App (React state `tweets`),  *)
(* the persisted copy kept by dataService, the consensus helper            *)
(* calculateFinalLabel and the handlers App passes to StudentView and      *)
(* AdminView.                                                              *)
(*                                                                         *)
(* A JS object (Record<string, T>) is a TLA+ function whose DOMAIN is the  *)
(* set of its keys.  The optional fields assignedTo, annotationFeatures    *)
(* and annotationTimestamps are only ever read through `x || []` or        *)
(* `x || {}`, so an absent field is represented by the empty value.        *)
(* A missing finalLabel is the value Undefined.                            *)
(***************************************************************************)
EXTENDS Integers, Sequences, FiniteSets, TLC

\* ---------------------------------------------------------------- bounds
\* Handler invocations in one run.  Date.now() starts at 1 and advances by one
\* with every invocation.
MaxOps == 3

\* ------------------------------------------------------------ vocabulary
Undefined == "undefined"
CONFLICT == "CONFLICT"

\* enum LabelOption: two of the three category labels, and Skip; the code
\* treats the third category, Neither, exactly like the other two
Jihadist == "Jihadist"
Quietist == "Quietist"
Skip == "Skip"
LabelOption == {Jihadist, Quietist, Skip}

\* usernames with role Student
Students == {"s1", "s2", "s3"}

\* ids of the tweets in the store
TweetIds == {"t1", "t2"}

\* A handler touches only the tweet whose id it is given: the calls are made
\* on t1, and t2 stays in the list to show what a call leaves alone.
Targets == {"t1"}

\* reason lists a student can attach (subsets of LABEL_REASONS)
FeatureInputs == {<<"r1">>}

\* ------------------------------------------------------------ JS helpers
EmptyObj == [k \in {} |-> Undefined]

\* obj[k]
Get(obj, k) == IF k \in DOMAIN obj THEN obj[k] ELSE Undefined

\* { ...obj, [k]: v }
Put(obj, k, v) == [x \in (DOMAIN obj) \cup {k} |-> IF x = k THEN v ELSE obj[x]]

\* delete obj[k]
Del(obj, k) == [x \in (DOMAIN obj) \ {k} |-> obj[x]]

\* Array.prototype.includes
Includes(seq, x) == \E i \in 1..Len(seq) : seq[i] = x

\* list.find(t => t.id === id); Undefined record when there is none
HasId(list, id) == \E i \in 1..Len(list) : list[i].id = id
Find(list, id) == list[CHOOSE i \in 1..Len(list) : list[i].id = id /\ \A j \in 1..(i-1) : list[j].id # id]

\* ------------------------------------------------------------- the state
\* tweets: the React state of App; stored: the list dataService persists;
\* now: Date.now(); last: the last handler call, its arguments and the list
\* it started from; audit: per tweet id, the label of the latest
\* handleSetFinalLabel since the last handleAssignmentChange, and whether a
\* handleResetLabel ran on the tweet since then, and whether handleSetFinalLabel
\* ever ran on it; other: the React state of App in a second browser, the
\* empty list when there is none.
VARIABLES tweets, stored, now, last, audit, other
vars == <<tweets, stored, now, last, audit, other>>

Tweet(id, assignedTo) ==
  [id |-> id, text |-> id, assignedTo |-> assignedTo,
   annotations |-> EmptyObj, annotationFeatures |-> EmptyObj,
   annotationTimestamps |-> EmptyObj, finalLabel |-> Undefined]

\* ------------------------------------------------------ consensus engine
\* IsAdminDecided with the spec's reading "non-CONFLICT, non-Skip"
IsAdminDecided_NotSkip(tweet) ==
  tweet.finalLabel # Undefined /\ tweet.finalLabel # CONFLICT /\ tweet.finalLabel # Skip

\* IsAdminDecided with === for !==
IsAdminDecided_Inverted(tweet) == tweet.finalLabel # Undefined /\ tweet.finalLabel = CONFLICT

\* tweet.finalLabel && tweet.finalLabel !== "CONFLICT"
IsAdminDecided(tweet) == tweet.finalLabel # Undefined /\ tweet.finalLabel # CONFLICT

\* assigned.map(u => newAnnotations[u]).filter(Boolean)
GivenLabels(assigned, newAnnotations) ==
  LET mapped == [i \in 1..Len(assigned) |-> Get(newAnnotations, assigned[i])]
      Truthy(l) == l # Undefined
  IN SelectSeq(mapped, Truthy)

\* HasDisagreement with some for every
HasDisagreement_Some(labels) == ~ \E i \in 1..Len(labels) : labels[i] = labels[1]

\* !labels.every(l => l === first)
HasDisagreement(labels) == ~ \A i \in 1..Len(labels) : labels[i] = labels[1]

\* UnanimousSkip with labels.length > 1
UnanimousSkip_NeedsTwo(labels) == Len(labels) > 1 /\ labels[1] = Skip

\* first === LabelOption.Skip && labels.length > 0
UnanimousSkip(labels) == Len(labels) > 0 /\ labels[1] = Skip

\* NotEveryoneFinished off by one
NotEveryoneFinished_OffByOne(labels, assigned) == Len(labels) + 1 < Len(assigned)

\* labels.length < assigned.length
NotEveryoneFinished(labels, assigned) == Len(labels) < Len(assigned)

\* calculateFinalLabel as in the previous revision of App: nothing is decided
\* before every assigned student has labelled
calculateFinalLabel_WaitForAll(tweet, newAnnotations) ==
  LET assigned == tweet.assignedTo
      labels == GivenLabels(assigned, newAnnotations)
  IN IF Len(assigned) = 0 THEN Undefined
     ELSE IF Len(labels) < Len(assigned) THEN tweet.finalLabel
     ELSE IF HasDisagreement(labels) THEN CONFLICT
     ELSE IF labels[1] = Skip THEN CONFLICT
     ELSE labels[1]

\* calculateFinalLabel returning undefined while students are missing
calculateFinalLabel_PendingUntilAll(tweet, newAnnotations) ==
  IF IsAdminDecided(tweet) THEN tweet.finalLabel
  ELSE LET assigned == tweet.assignedTo
           labels == GivenLabels(assigned, newAnnotations)
       IN IF Len(assigned) = 0 THEN Undefined
          ELSE IF Len(labels) = 0 THEN Undefined
          ELSE IF Len(labels) > 1 /\ HasDisagreement(labels) THEN CONFLICT
          ELSE IF UnanimousSkip(labels) THEN CONFLICT
          ELSE IF NotEveryoneFinished(labels, assigned) THEN Undefined
          ELSE labels[1]

calculateFinalLabel(tweet, newAnnotations) ==
  IF IsAdminDecided(tweet) THEN tweet.finalLabel
  ELSE LET assigned == tweet.assignedTo
           labels == GivenLabels(assigned, newAnnotations)
       IN IF Len(assigned) = 0 THEN Undefined
          ELSE IF Len(labels) = 0 THEN Undefined
          ELSE IF Len(labels) > 1 /\ HasDisagreement(labels) THEN CONFLICT
          ELSE IF UnanimousSkip(labels) THEN CONFLICT
          ELSE IF NotEveryoneFinished(labels, assigned) THEN tweet.finalLabel
          ELSE labels[1]

\* ------------------------------------------------------------ dataService
\* saveTweet (localStorage variant)
saveTweet(list, tweet) ==
  [i \in 1..Len(list) |-> IF list[i].id = tweet.id THEN tweet ELSE list[i]]

\* ---------------------------------------------------------------- handlers
\* history kept for the properties, read by no handler
NoAudit == [override |-> Undefined, cleared |-> FALSE, decided |-> FALSE]

Audited(op, id, label) ==
  IF ~ HasId(tweets, id) THEN audit
  ELSE IF op = "setFinal"
       THEN [audit EXCEPT ![id] = [override |-> label, cleared |-> FALSE, decided |-> TRUE]]
  ELSE IF op = "assign"
       THEN [audit EXCEPT ![id] = [NoAudit EXCEPT !.decided = audit[id].decided]]
  ELSE IF op = "reset" THEN [audit EXCEPT ![id].cleared = TRUE]
  ELSE audit

\* outcome: "alert" when the handler stopped at an alert(), "done" otherwise;
\* percent: the overlap percentage of a handleAutoAssign call, 0 for the others
Called(op, outcome, id, user, label, given, percent) ==
  /\ now' = now + 1
  /\ last' = [op |-> op, outcome |-> outcome, id |-> id, user |-> user, label |-> label,
              given |-> given, percent |-> percent, before |-> tweets]
  /\ audit' = Audited(op, id, label)
  /\ other' = other

\* the handlers that show no alert
Done(op, id, user, label, given) == Called(op, "done", id, user, label, given, 0)

\* before the first call
NoCall(list) ==
  [op |-> "init", outcome |-> "done", id |-> Undefined, user |-> Undefined,
   label |-> Undefined, given |-> <<>>, percent |-> 0, before |-> list]

Persist(updatedTweets, id) ==
  /\ tweets' = updatedTweets
  /\ stored' = IF HasId(updatedTweets, id)
               THEN saveTweet(stored, Find(updatedTweets, id))
               ELSE stored

\* LabelledTweet as in the first revision of App: finalLabel is not recomputed
LabelledTweet_NoConsensus(tweet, username, label, features) ==
  [tweet EXCEPT
     !.annotations = Put(tweet.annotations, username, label),
     !.annotationFeatures = Put(tweet.annotationFeatures, username, features),
     !.annotationTimestamps = Put(tweet.annotationTimestamps, username, now)]

\* LabelledTweet computing the consensus from the annotations before this label
LabelledTweet_StaleAnnotations(tweet, username, label, features) ==
  [tweet EXCEPT
     !.annotations = Put(tweet.annotations, username, label),
     !.annotationFeatures = Put(tweet.annotationFeatures, username, features),
     !.annotationTimestamps = Put(tweet.annotationTimestamps, username, now),
     !.finalLabel = calculateFinalLabel(tweet, tweet.annotations)]

LabelledTweet(tweet, username, label, features) ==
  LET newAnnotations == Put(tweet.annotations, username, label)
  IN [tweet EXCEPT
        !.annotations = newAnnotations,
        !.annotationFeatures = Put(tweet.annotationFeatures, username, features),
        !.annotationTimestamps = Put(tweet.annotationTimestamps, username, now),
        !.finalLabel = calculateFinalLabel(tweet, newAnnotations)]

handleLabelTweet(currentUser, tweetId, label, features) ==
  /\ Persist([i \in 1..Len(tweets) |->
                IF tweets[i].id = tweetId
                THEN LabelledTweet(tweets[i], currentUser, label, features)
                ELSE tweets[i]], tweetId)
  /\ Done("label", tweetId, currentUser, label, <<>>)

\* ResetTweet recomputing the consensus instead of clearing it
ResetTweet_Recompute(tweet, username) ==
  [tweet EXCEPT
     !.annotations = Del(tweet.annotations, username),
     !.annotationFeatures = Del(tweet.annotationFeatures, username),
     !.annotationTimestamps = Del(tweet.annotationTimestamps, username),
     !.finalLabel = calculateFinalLabel(tweet, Del(tweet.annotations, username))]

ResetTweet(tweet, username) ==
  [tweet EXCEPT
     !.annotations = Del(tweet.annotations, username),
     !.annotationFeatures = Del(tweet.annotationFeatures, username),
     !.annotationTimestamps = Del(tweet.annotationTimestamps, username),
     !.finalLabel = Undefined]

handleResetLabel(currentUser, tweetId) ==
  /\ Persist([i \in 1..Len(tweets) |->
                IF tweets[i].id = tweetId THEN ResetTweet(tweets[i], currentUser)
                ELSE tweets[i]], tweetId)
  /\ Done("reset", tweetId, currentUser, Undefined, <<>>)

AdminLabelledTweet(tweet, studentUsername, newLabel) ==
  LET newAnnotations == Put(tweet.annotations, studentUsername, newLabel)
  IN [tweet EXCEPT
        !.annotations = newAnnotations,
        !.annotationTimestamps = Put(tweet.annotationTimestamps, studentUsername, now),
        !.finalLabel = calculateFinalLabel(tweet, newAnnotations)]

handleAdminLabelChange(tweetId, studentUsername, newLabel) ==
  /\ Persist([i \in 1..Len(tweets) |->
                IF tweets[i].id = tweetId
                THEN AdminLabelledTweet(tweets[i], studentUsername, newLabel)
                ELSE tweets[i]], tweetId)
  /\ Done("adminLabel", tweetId, studentUsername, newLabel, <<>>)

handleSetFinalLabel(tweetId, finalLabel) ==
  /\ Persist([i \in 1..Len(tweets) |->
                IF tweets[i].id = tweetId THEN [tweets[i] EXCEPT !.finalLabel = finalLabel]
                ELSE tweets[i]], tweetId)
  /\ Done("setFinal", tweetId, Undefined, finalLabel, <<>>)

\* AssignedTweet as in the first revision of App: finalLabel is kept
AssignedTweet_KeepFinal(tweet, assignedTo) == [tweet EXCEPT !.assignedTo = assignedTo]

\* { ...tweet, assignedTo, finalLabel: undefined }
AssignedTweet(tweet, assignedTo) ==
  [tweet EXCEPT !.assignedTo = assignedTo, !.finalLabel = Undefined]

handleAssignmentChange(tweetId, assignedTo) ==
  Persist([i \in 1..Len(tweets) |->
             IF tweets[i].id = tweetId THEN AssignedTweet(tweets[i], assignedTo)
             ELSE tweets[i]], tweetId)

\* ToggledAssignment ticking a student in place of the current ones
ToggledAssignment_Replace(currentAssigned, student) ==
  IF Includes(currentAssigned, student)
  THEN LET Other(s) == s # student IN SelectSeq(currentAssigned, Other)
  ELSE <<student>>

\* AdminView: the checkbox of one student in the edit modal
ToggledAssignment(currentAssigned, student) ==
  IF Includes(currentAssigned, student)
  THEN LET Other(s) == s # student IN SelectSeq(currentAssigned, Other)
  ELSE Append(currentAssigned, student)

\* the modal edits a tweet of the list, so the id exists
handleToggleAssignment(tweetId, student) ==
  /\ HasId(tweets, tweetId)
  /\ LET newAssigned == ToggledAssignment(Find(tweets, tweetId).assignedTo, student)
     IN /\ handleAssignmentChange(tweetId, newAssigned)
        /\ Done("assign", tweetId, student, Undefined, newAssigned)

\* --------------------------------------------------- delete and bulk update
\* deleteTweet (localStorage variant); also tweets.filter(t => t.id !== tweetId)
deleteTweet(list, tweetId) ==
  LET Other(t) == t.id # tweetId IN SelectSeq(list, Other)

handleDeleteTweet(tweetId) ==
  /\ tweets' = deleteTweet(tweets, tweetId)
  /\ stored' = deleteTweet(stored, tweetId)
  /\ Done("delete", tweetId, Undefined, Undefined, <<>>)

\* new Map(updatedList.map(t => [t.id, t])): the last entry of an id wins
UpdatesMapHas(updatedList, id) == HasId(updatedList, id)
UpdatesMapGet(updatedList, id) ==
  updatedList[CHOOSE i \in 1..Len(updatedList) :
                updatedList[i].id = id /\ \A j \in (i+1)..Len(updatedList) : updatedList[j].id # id]

\* updateTweets (localStorage variant); the same map is applied to the React state
updateTweets(list, updatedList) ==
  [i \in 1..Len(list) |->
     IF UpdatesMapHas(updatedList, list[i].id) THEN UpdatesMapGet(updatedList, list[i].id)
     ELSE list[i]]

handleBulkUpdateTweets(updatedList) ==
  /\ tweets' = updateTweets(tweets, updatedList)
  /\ stored' = updateTweets(stored, updatedList)

\* -------------------------------------------------- assignment distributor
\* selectedStudents[i] with the 0-based index of the code
At(seq, i) == seq[i + 1]

\* NumTweetsWithOverlap with Math.floor for Math.round
NumTweetsWithOverlap_Floor(numTweets, overlapPercentage) ==
  (numTweets * overlapPercentage) \div 100

\* Math.round((numTweets * overlapPercentage) / 100): halves round up
NumTweetsWithOverlap(numTweets, overlapPercentage) ==
  (numTweets * overlapPercentage + 50) \div 100

\* SingleLoop without studentIndex++
RECURSIVE SingleLoop_NoAdvance(_, _, _, _, _, _)
SingleLoop_NoAdvance(i, limit, studentIndex, acc, unassignedTweets, selectedStudents) ==
  IF i >= limit THEN [studentIndex |-> studentIndex, tweetsToUpdate |-> acc]
  ELSE LET numStudents == Len(selectedStudents)
           assignedStudent == At(selectedStudents, studentIndex % numStudents)
       IN SingleLoop_NoAdvance(i + 1, limit, studentIndex,
                     Append(acc, [At(unassignedTweets, i) EXCEPT !.assignedTo = <<assignedStudent>>]),
                     unassignedTweets, selectedStudents)

\* first loop: one student per tweet, studentIndex advances by one
RECURSIVE SingleLoop(_, _, _, _, _, _)
SingleLoop(i, limit, studentIndex, acc, unassignedTweets, selectedStudents) ==
  IF i >= limit THEN [studentIndex |-> studentIndex, tweetsToUpdate |-> acc]
  ELSE LET numStudents == Len(selectedStudents)
           assignedStudent == At(selectedStudents, studentIndex % numStudents)
       IN SingleLoop(i + 1, limit, studentIndex + 1,
                     Append(acc, [At(unassignedTweets, i) EXCEPT !.assignedTo = <<assignedStudent>>]),
                     unassignedTweets, selectedStudents)

\* [student1, student2].sort(() => Math.random() - 0.5): either order
Shuffled(student1, student2, swap) ==
  IF swap THEN <<student2, student1>> ELSE <<student1, student2>>

\* OverlapLoop without the studentIndex++ between the two reads
RECURSIVE OverlapLoop_OneStep(_, _, _, _, _, _, _)
OverlapLoop_OneStep(i, limit, studentIndex, acc, unassignedTweets, selectedStudents, swaps) ==
  IF i >= limit THEN acc
  ELSE LET numStudents == Len(selectedStudents)
           student1 == At(selectedStudents, studentIndex % numStudents)
           second == At(selectedStudents, studentIndex % numStudents)
           after == studentIndex + 1
           student2 == IF student1 = second /\ numStudents > 1
                       THEN At(selectedStudents, (after - 1 + numStudents) % numStudents)
                       ELSE second
       IN OverlapLoop_OneStep(i + 1, limit, after,
                      Append(acc, [At(unassignedTweets, i) EXCEPT
                                     !.assignedTo = Shuffled(student1, student2, At(swaps, i))]),
                      unassignedTweets, selectedStudents, swaps)

\* second loop: two students per tweet, studentIndex advances by two
RECURSIVE OverlapLoop(_, _, _, _, _, _, _)
OverlapLoop(i, limit, studentIndex, acc, unassignedTweets, selectedStudents, swaps) ==
  IF i >= limit THEN acc
  ELSE LET numStudents == Len(selectedStudents)
           student1 == At(selectedStudents, studentIndex % numStudents)
           second == At(selectedStudents, (studentIndex + 1) % numStudents)
           after == studentIndex + 2
           student2 == IF student1 = second /\ numStudents > 1
                       THEN At(selectedStudents, (after - 1 + numStudents) % numStudents)
                       ELSE second
       IN OverlapLoop(i + 1, limit, after,
                      Append(acc, [At(unassignedTweets, i) EXCEPT
                                     !.assignedTo = Shuffled(student1, student2, At(swaps, i))]),
                      unassignedTweets, selectedStudents, swaps)

\* Unassigned without the filter
Unassigned_Everyone(list) == list

\* !t.assignedTo || t.assignedTo.length === 0
Unassigned(list) == LET NoOne(t) == Len(t.assignedTo) = 0 IN SelectSeq(list, NoOne)

\* TweetsToUpdate with the two counts taken for each other
TweetsToUpdate_CountsSwapped(list, selectedStudents, overlapPercentage, swaps) ==
  LET unassignedTweets == Unassigned(list)
      numTweets == Len(unassignedTweets)
      numTweetsWithoutOverlap == NumTweetsWithOverlap(numTweets, overlapPercentage)
      first == SingleLoop(0, numTweetsWithoutOverlap, 0, <<>>, unassignedTweets, selectedStudents)
  IN OverlapLoop(numTweetsWithoutOverlap, numTweets, first.studentIndex, first.tweetsToUpdate,
                 unassignedTweets, selectedStudents, swaps)

TweetsToUpdate(list, selectedStudents, overlapPercentage, swaps) ==
  LET unassignedTweets == Unassigned(list)
      numTweets == Len(unassignedTweets)
      numTweetsWithOverlap == NumTweetsWithOverlap(numTweets, overlapPercentage)
      numTweetsWithoutOverlap == numTweets - numTweetsWithOverlap
      first == SingleLoop(0, numTweetsWithoutOverlap, 0, <<>>, unassignedTweets, selectedStudents)
  IN OverlapLoop(numTweetsWithoutOverlap, numTweets, first.studentIndex, first.tweetsToUpdate,
                 unassignedTweets, selectedStudents, swaps)

\* handleAutoAssign without the check of selectedStudents.length: with no
\* student, selectedStudents[NaN] is undefined and goes into assignedTo
handleAutoAssign_NoSelectionCheck(selectedStudents, overlapPercentage, swaps) ==
  IF Len(Unassigned(tweets)) = 0
  THEN /\ UNCHANGED <<tweets, stored>>
       /\ Called("autoAssign", "alert", Undefined, Undefined, Undefined, selectedStudents,
                 overlapPercentage)
  ELSE /\ handleBulkUpdateTweets(
            IF Len(selectedStudents) = 0
            THEN [i \in 1..Len(Unassigned(tweets)) |->
                    [Unassigned(tweets)[i] EXCEPT !.assignedTo = <<Undefined>>]]
            ELSE TweetsToUpdate(tweets, selectedStudents, overlapPercentage, swaps))
       /\ Called("autoAssign", "done", Undefined, Undefined, Undefined, selectedStudents,
                 overlapPercentage)

\* the two early returns show an alert and call nothing; otherwise the batch
\* goes to onBulkUpdateTweets
handleAutoAssign(selectedStudents, overlapPercentage, swaps) ==
  IF Len(selectedStudents) = 0 \/ Len(Unassigned(tweets)) = 0
  THEN /\ UNCHANGED <<tweets, stored>>
       /\ Called("autoAssign", "alert", Undefined, Undefined, Undefined, selectedStudents,
                 overlapPercentage)
  ELSE /\ handleBulkUpdateTweets(TweetsToUpdate(tweets, selectedStudents, overlapPercentage, swaps))
       /\ Called("autoAssign", "done", Undefined, Undefined, Undefined, selectedStudents,
                 overlapPercentage)

\* ------------------------------------------------------------ the machine
\* the student selections and overlap percentages tried in the assign modal
SelectedInputs == {<<"s1">>, <<"s1", "s2">>, <<"s3", "s2", "s1">>}
OverlapInputs == {0, 50, 100}

\* assignments given to t1 when it was uploaded
InitAssigned == {<<>>, <<"s1">>, <<"s1", "s2">>, <<"s1", "s2", "s3">>}

\* t2 as handleLabelTweet left it at time 0: assigned to s2 and labelled by s2
LabelledEarlier ==
  [Tweet("t2", <<"s2">>) EXCEPT
     !.annotations = Put(EmptyObj, "s2", Quietist),
     !.annotationFeatures = Put(EmptyObj, "s2", <<"r1">>),
     !.annotationTimestamps = Put(EmptyObj, "s2", 0),
     !.finalLabel = Quietist]

\* the list loaded on mount: t1 uploaded and not labelled yet, t2 labelled
Init ==
  /\ \E a1 \in InitAssigned : tweets = <<Tweet("t1", a1), LabelledEarlier>>
  /\ stored = tweets
  /\ now = 1
  /\ last = NoCall(tweets)
  /\ audit = [id \in TweetIds |-> NoAudit]
  /\ other = <<>>

LabelTweet ==
  /\ now <= MaxOps
  /\ \E u \in Students, id \in Targets, l \in LabelOption, f \in FeatureInputs :
        handleLabelTweet(u, id, l, f)
ResetLabel ==
  /\ now <= MaxOps
  /\ \E u \in Students, id \in Targets : handleResetLabel(u, id)
AdminLabelChange ==
  /\ now <= MaxOps
  /\ \E id \in Targets, s \in Students, l \in LabelOption : handleAdminLabelChange(id, s, l)
SetFinalLabel ==
  /\ now <= MaxOps
  /\ \E id \in Targets, l \in LabelOption : handleSetFinalLabel(id, l)
ToggleAssignment ==
  /\ now <= MaxOps
  /\ \E id \in Targets, s \in Students : handleToggleAssignment(id, s)
DeleteTweet ==
  /\ now <= MaxOps
  /\ \E id \in Targets : handleDeleteTweet(id)
AutoAssign ==
  /\ now <= MaxOps
  /\ \E sel \in SelectedInputs, p \in OverlapInputs :
        \E swaps \in [1..Len(Unassigned(tweets)) -> BOOLEAN] :
          handleAutoAssign(sel, p, swaps)

Next ==
  \/ LabelTweet
  \/ ResetLabel
  \/ AdminLabelChange
  \/ SetFinalLabel
  \/ ToggleAssignment
  \/ DeleteTweet
  \/ AutoAssign

Spec == Init /\ [][Next]_vars

TypeOK == now \in 1..(MaxOps + 1)

\* ------------------------------------------------------------- properties
\* the tweet the last call was about, before and after the call
Hit(ops) == last.op \in ops /\ HasId(last.before, last.id) /\ HasId(tweets, last.id)
Was == Find(last.before, last.id)
Is == Find(tweets, last.id)

Pending(tweet) == tweet.finalLabel = Undefined
Open(tweet) == tweet.finalLabel \in {Undefined, CONFLICT}
Concrete(tweet) == tweet.finalLabel \in LabelOption \ {Skip}

\* the labels of the assigned students who have labelled the tweet
Given(tweet) == GivenLabels(tweet.assignedTo, tweet.annotations)
AllLabelled(tweet) ==
  \A i \in 1..Len(tweet.assignedTo) : tweet.assignedTo[i] \in DOMAIN tweet.annotations
AllGivenAre(tweet, l) == \A i \in 1..Len(Given(tweet)) : Given(tweet)[i] = l
Disagree(tweet) ==
  \E i, j \in 1..Len(tweet.assignedTo) :
     /\ tweet.assignedTo[i] \in DOMAIN tweet.annotations
     /\ tweet.assignedTo[j] \in DOMAIN tweet.annotations
     /\ tweet.annotations[tweet.assignedTo[i]] # tweet.annotations[tweet.assignedTo[j]]
AgreeOnSkip(tweet) == Len(Given(tweet)) > 0 /\ AllGivenAre(tweet, Skip)

\* the only assigned student has just labelled the tweet
SoleLabel == Hit({"label"}) /\ Was.assignedTo = <<last.user>>
SoleVerdict == IF last.label = Skip THEN CONFLICT ELSE last.label

\* C1 as stated: whenever the only assigned student of a tweet records a label
\* L, finalLabel is L right after the call, or CONFLICT when L is Skip.
C1_Original == SoleLabel => Is.finalLabel = SoleVerdict

\* C1: when the only assigned student of a tweet whose finalLabel is pending or
\* CONFLICT records a label L, finalLabel is L right after the call, or
\* CONFLICT when L is Skip.
C1_SoleStudentDecides == (SoleLabel /\ Open(Was)) => Is.finalLabel = SoleVerdict

C1_Witness ==
  /\ SoleLabel
  /\ Was.finalLabel = CONFLICT
  /\ last.label # Skip
  /\ Is.finalLabel = last.label

\* an assigned student has just recorded a label other than Skip on a tweet
\* where another assigned student holds a different label other than Skip
SecondDiffers ==
  /\ Hit({"label"})
  /\ last.label # Skip
  /\ Len(Was.assignedTo) >= 2
  /\ Includes(Was.assignedTo, last.user)
  /\ \E i \in 1..Len(Was.assignedTo) :
        /\ Was.assignedTo[i] # last.user
        /\ Get(Was.annotations, Was.assignedTo[i]) \notin {Undefined, Skip, last.label}

\* C2 as stated: as soon as two assigned students hold different labels other
\* than Skip, finalLabel is CONFLICT right after the second label is recorded.
C2_Original == SecondDiffers => Is.finalLabel = CONFLICT

\* C2: on a tweet whose finalLabel is pending or CONFLICT, as soon as two
\* assigned students hold different labels other than Skip, finalLabel is
\* CONFLICT right after the second label is recorded, also when other assigned
\* students have not labelled.
C2_EarlyConflict == (SecondDiffers /\ Open(Was)) => Is.finalLabel = CONFLICT

C2_Witness ==
  /\ SecondDiffers
  /\ Pending(Was)
  /\ ~ AllLabelled(Is)
  /\ Is.finalLabel = CONFLICT

\* an assigned student has just recorded L (not Skip) and every assigned
\* student who has labelled the tweet holds L
SameLabelStep ==
  /\ Hit({"label"})
  /\ last.label # Skip
  /\ Includes(Was.assignedTo, last.user)
  /\ AllGivenAre(Is, last.label)
SameLabelVerdict == IF AllLabelled(Is) THEN last.label ELSE Undefined

\* C3 as stated: unless a CONFLICT was forced earlier, finalLabel is pending
\* after every submission of the same label L but the last one and is L after
\* the last one.
C3_Original == (SameLabelStep /\ Was.finalLabel # CONFLICT) => Is.finalLabel = SameLabelVerdict

\* C3: on a tweet whose finalLabel is pending, finalLabel stays pending after
\* every submission of the same label L (not Skip) by an assigned student but
\* the last one, and is L once the last assigned student has submitted L.
C3_ResolvesOnLast == (SameLabelStep /\ Pending(Was)) => Is.finalLabel = SameLabelVerdict

\* the third of three assigned students submits the label of the other two
C3_Witness ==
  /\ SameLabelStep
  /\ Pending(Was)
  /\ Len(Was.assignedTo) = 3
  /\ Cardinality(DOMAIN Was.annotations) = 2
  /\ ~ AllLabelled(Was)
  /\ Is.finalLabel = last.label

\* C4: when a tweet whose finalLabel is pending or CONFLICT receives a label
\* (from the student or by an admin edit) after which every label given by its
\* assigned students is Skip, finalLabel is CONFLICT.
C4_SkipNeverResolves ==
  (Hit({"label", "adminLabel"}) /\ Open(Was) /\ AgreeOnSkip(Is)) => Is.finalLabel = CONFLICT

\* one of several assigned students skipped, the others have not labelled
C4_Witness ==
  /\ Hit({"label", "adminLabel"})
  /\ Pending(Was)
  /\ last.label = Skip
  /\ AgreeOnSkip(Is)
  /\ ~ AllLabelled(Is)
  /\ Is.finalLabel = CONFLICT

\* C5 as stated: in every reachable state, a tweet on which two assigned
\* labellers disagree, or all assigned labellers agree on Skip, has finalLabel
\* CONFLICT.
C5_Original ==
  \A i \in 1..Len(tweets) :
     (Disagree(tweets[i]) \/ AgreeOnSkip(tweets[i])) => tweets[i].finalLabel = CONFLICT

\* C5: right after a label is recorded (by the student or by an admin edit) on
\* a tweet whose finalLabel was pending or CONFLICT, if two assigned labellers
\* disagree or all assigned labellers agree on Skip then finalLabel is CONFLICT.
C5_ConflictAfterLabel ==
  (Hit({"label", "adminLabel"}) /\ Open(Was) /\ (Disagree(Is) \/ AgreeOnSkip(Is)))
     => Is.finalLabel = CONFLICT

\* an admin edit makes two assigned students disagree on a reopened tweet
C5_Witness ==
  /\ Hit({"adminLabel"})
  /\ Pending(Was)
  /\ Disagree(Is)
  /\ Is.finalLabel = CONFLICT

\* C6 as stated: the label of handleSetFinalLabel stays the tweet's finalLabel
\* until handleAssignmentChange or another handleSetFinalLabel on that tweet.
C6_Original ==
  \A i \in 1..Len(tweets) :
     audit[tweets[i].id].override # Undefined
        => tweets[i].finalLabel = audit[tweets[i].id].override

\* C6: the label of handleSetFinalLabel stays the tweet's finalLabel until
\* handleAssignmentChange, handleResetLabel or another handleSetFinalLabel on
\* that tweet.
C6_OverridePersists ==
  \A i \in 1..Len(tweets) :
     (audit[tweets[i].id].override # Undefined /\ ~ audit[tweets[i].id].cleared)
        => tweets[i].finalLabel = audit[tweets[i].id].override

\* a student labels an overridden tweet with another label
C6_Witness ==
  /\ Hit({"label"})
  /\ Includes(Is.assignedTo, last.user)
  /\ audit[last.id].override # Undefined
  /\ ~ audit[last.id].cleared
  /\ last.label # audit[last.id].override
  /\ Is.finalLabel = audit[last.id].override

\* C7: a label recorded by a student or by an admin edit on a tweet whose
\* finalLabel is a concrete label (not CONFLICT, not Skip) leaves finalLabel
\* as it was.
C7_DecisionKept ==
  (Hit({"label", "adminLabel"}) /\ Concrete(Was)) => Is.finalLabel = Was.finalLabel

\* an admin edit leaves every assigned student with a label other than finalLabel
C7_Witness ==
  /\ Hit({"adminLabel"})
  /\ Concrete(Was)
  /\ AllLabelled(Is)
  /\ Len(Is.assignedTo) > 0
  /\ \A i \in 1..Len(Given(Is)) : Given(Is)[i] # Was.finalLabel
  /\ Is.finalLabel = Was.finalLabel

HadEntry == last.user \in DOMAIN Was.annotations
SameExcept(after, before, user) ==
  /\ DOMAIN after = (DOMAIN before) \ {user}
  /\ \A k \in DOMAIN after : after[k] = before[k]

\* C8: handleResetLabel by a student who has an entry on the tweet removes the
\* student's key from annotations, annotationFeatures and annotationTimestamps,
\* keeps the other students' entries and sets finalLabel to pending, whatever
\* finalLabel was.
C8_ResetReopens ==
  (Hit({"reset"}) /\ HadEntry) =>
     /\ SameExcept(Is.annotations, Was.annotations, last.user)
     /\ SameExcept(Is.annotationFeatures, Was.annotationFeatures, last.user)
     /\ SameExcept(Is.annotationTimestamps, Was.annotationTimestamps, last.user)
     /\ Is.finalLabel = Undefined

\* the reset removes the entry of a student on a tweet with an admin override
C8_Witness ==
  /\ Hit({"reset"})
  /\ HadEntry
  /\ Concrete(Was)
  /\ audit[last.id].override = Was.finalLabel
  /\ last.user \notin DOMAIN Is.annotations
  /\ Pending(Is)

\* C9 as stated: handleResetLabel by a student who has no entry on the tweet
\* leaves the tweet, finalLabel included, and the list unchanged.
C9_Original == (Hit({"reset"}) /\ ~ HadEntry) => tweets = last.before

\* C10: handleAssignmentChange replaces assignedTo by the given list, sets
\* finalLabel to pending and leaves the annotations, features and timestamps
\* of the tweet and every other tweet unchanged.
C10_AssignmentFrame ==
  Hit({"assign"}) =>
     /\ Is.assignedTo = last.given
     /\ Is.finalLabel = Undefined
     /\ Is.annotations = Was.annotations
     /\ Is.annotationFeatures = Was.annotationFeatures
     /\ Is.annotationTimestamps = Was.annotationTimestamps
     /\ Is.id = Was.id /\ Is.text = Was.text
     /\ Len(tweets) = Len(last.before)
     /\ \A i \in 1..Len(tweets) : tweets[i].id # last.id => tweets[i] = last.before[i]

\* the assignment of a labelled, resolved tweet changes
C10_Witness ==
  /\ Hit({"assign"})
  /\ ~ Pending(Was)
  /\ DOMAIN Was.annotations # {}
  /\ Is.assignedTo # Was.assignedTo
  /\ Pending(Is)

\* ------------------------------------------------- the example scenario
\* Handler calls that follow the four calls of the example.
ExampleExtra == 3

\* the two category labels of the example
Categories == {Jihadist, Quietist}

\* the tweet of the example: t1, assigned to s1 and s2, nothing labelled
ExampleInit ==
  /\ tweets = <<Tweet("t1", <<"s1", "s2">>), LabelledEarlier>>
  /\ stored = tweets
  /\ now = 1
  /\ last = NoCall(tweets)
  /\ audit = [id \in TweetIds |-> NoAudit]
  /\ other = <<>>

ExampleTweet == Find(tweets, "t1")

\* s1 labels Category_A
ExampleFirstLabel ==
  /\ now = 1
  /\ \E a \in Categories, f \in FeatureInputs : handleLabelTweet("s1", "t1", a, f)

\* s2 labels Category_B, another category
ExampleSecondLabel ==
  /\ now = 2
  /\ \E b \in Categories \ {ExampleTweet.annotations["s1"]}, f \in FeatureInputs :
        handleLabelTweet("s2", "t1", b, f)

\* the admin decides Category_A in the resolution tab
ExampleOverride ==
  /\ now = 3
  /\ handleSetFinalLabel("t1", ExampleTweet.annotations["s1"])

\* the admin ticks s3 in the edit modal: assignedTo becomes [s1, s2, s3]
ExampleReassign ==
  /\ now = 4
  /\ handleToggleAssignment("t1", "s3")

\* afterwards the three students label and reset, and the admin edits labels
ExampleLabel ==
  /\ now \in 5..(4 + ExampleExtra)
  /\ \E u \in Students, l \in LabelOption, f \in FeatureInputs : handleLabelTweet(u, "t1", l, f)
ExampleReset ==
  /\ now \in 5..(4 + ExampleExtra)
  /\ \E u \in Students : handleResetLabel(u, "t1")
ExampleAdminEdit ==
  /\ now \in 5..(4 + ExampleExtra)
  /\ \E s \in Students, l \in LabelOption : handleAdminLabelChange("t1", s, l)

ExampleNext ==
  \/ ExampleFirstLabel
  \/ ExampleSecondLabel
  \/ ExampleOverride
  \/ ExampleReassign
  \/ ExampleLabel
  \/ ExampleReset
  \/ ExampleAdminEdit

SpecExample == ExampleInit /\ [][ExampleNext]_vars

\* C11: in the example, finalLabel is pending after s1's label, CONFLICT after
\* s2's different label, Category_A after the admin's decision, pending after
\* s3 is added to assignedTo, and from then on it is not a label as long as s3
\* has no entry in annotations, whatever s1, s2 and the admin's label edits do.
C11_ExampleTrace ==
  /\ now = 2 => Pending(ExampleTweet)
  /\ now = 3 => ExampleTweet.finalLabel = CONFLICT
  /\ now = 4 => ExampleTweet.finalLabel = ExampleTweet.annotations["s1"]
  /\ now = 5 => Pending(ExampleTweet) /\ ExampleTweet.assignedTo = <<"s1", "s2", "s3">>
  /\ (now >= 5 /\ "s3" \notin DOMAIN ExampleTweet.annotations)
        => ExampleTweet.finalLabel \notin LabelOption

\* after the example s2 has come round to s1's category, s3 has not labelled,
\* and finalLabel is still pending
C11_Witness ==
  /\ now > 5
  /\ "s3" \notin DOMAIN ExampleTweet.annotations
  /\ Get(ExampleTweet.annotations, "s1") \in Categories
  /\ Get(ExampleTweet.annotations, "s2") = Get(ExampleTweet.annotations, "s1")
  /\ Pending(ExampleTweet)

\* ------------------------------------------------- what the views offer
\* StudentView lists the tweets assigned to the user
myTweets(list, username) ==
  LET Mine(t) == Includes(t.assignedTo, username) IN SelectSeq(list, Mine)

\* AdminView: the label select of a student is disabled unless the student
\* is assigned to the tweet in the edit modal
isAssigned(tweet, student) == Includes(tweet.assignedTo, student)

\* AdminView: the resolution tab lists the tweets that need a decision
needsResolution(tweet) == tweet.finalLabel = CONFLICT \/ tweet.finalLabel = Skip

\* a student labels one of the tweets StudentView lists for them
AssignedLabelTweet ==
  /\ now <= MaxOps
  /\ \E u \in Students, id \in Targets, l \in LabelOption, f \in FeatureInputs :
        /\ HasId(myTweets(tweets, u), id)
        /\ handleLabelTweet(u, id, l, f)

\* the admin changes the label of a student whose select is enabled
AssignedAdminLabelChange ==
  /\ now <= MaxOps
  /\ \E id \in Targets, s \in Students, l \in LabelOption :
        /\ HasId(tweets, id)
        /\ isAssigned(Find(tweets, id), s)
        /\ handleAdminLabelChange(id, s, l)

\* the admin decides a tweet of the resolution tab
ResolutionSetFinalLabel ==
  /\ now <= MaxOps
  /\ \E id \in Targets, l \in LabelOption :
        /\ HasId(tweets, id)
        /\ needsResolution(Find(tweets, id))
        /\ handleSetFinalLabel(id, l)

\* labels are recorded for assigned students only
NextAssignedLabels ==
  \/ AssignedLabelTweet
  \/ ResetLabel
  \/ AssignedAdminLabelChange
  \/ SetFinalLabel
  \/ ToggleAssignment
  \/ DeleteTweet
  \/ AutoAssign

SpecAssignedLabels == Init /\ [][NextAssignedLabels]_vars

\* the final label is set from the resolution tab only
NextResolution ==
  \/ LabelTweet
  \/ ResetLabel
  \/ AdminLabelChange
  \/ ResolutionSetFinalLabel
  \/ ToggleAssignment
  \/ DeleteTweet
  \/ AutoAssign

SpecResolution == Init /\ [][NextResolution]_vars

\* every student with an entry in annotations is assigned to the tweet
KeysAssigned(tweet) == \A k \in DOMAIN tweet.annotations : Includes(tweet.assignedTo, k)

\* the admin has just unticked, on this tweet, a student who had an entry
UntickedLabelled(before) ==
  /\ last.op = "assign"
  /\ last.id = before.id
  /\ Includes(before.assignedTo, last.user)
  /\ last.user \in DOMAIN before.annotations

\* C12 as stated: when labels are recorded for assigned students only, the
\* keys of annotations are members of assignedTo in every reachable state.
C12_Original == \A i \in 1..Len(tweets) : KeysAssigned(tweets[i])

\* C12: when labels are recorded for assigned students only, a call keeps the
\* keys of annotations within assignedTo on every tweet, unless the call
\* unticks a student who has an entry in the tweet's annotations.
C12_KeysStayAssigned ==
  \A i \in 1..Len(tweets) :
     HasId(last.before, tweets[i].id) =>
        LET before == Find(last.before, tweets[i].id)
        IN (KeysAssigned(before) /\ ~ UntickedLabelled(before)) => KeysAssigned(tweets[i])

\* a second student was ticked on a tweet its first student had labelled
C12_Witness ==
  /\ Hit({"assign"})
  /\ DOMAIN Was.annotations # {}
  /\ KeysAssigned(Was)
  /\ Len(Is.assignedTo) > Len(Was.assignedTo)
  /\ KeysAssigned(Is)

\* C13: when the final label is set from the resolution tab only, a tweet
\* with no assigned student has a pending finalLabel in every reachable state.
C13_UnassignedPending ==
  \A i \in 1..Len(tweets) : Len(tweets[i].assignedTo) = 0 => Pending(tweets[i])

\* the last student was unticked on a tweet that had a final label or CONFLICT
C13_Witness ==
  /\ Hit({"assign"})
  /\ ~ Pending(Was)
  /\ Len(Is.assignedTo) = 0
  /\ Pending(Is)

\* ------------------------------------------ the distributor on longer lists
\* Tweets in the list when the assign modal is opened.
MaxTweets == 4

\* ids of the tweets of a list, by position
ListIds == <<"t1", "t2", "t3", "t4", "t5", "t6">>

\* what a tweet of the list has been through: uploaded without students;
\* assigned to s2 and labelled by s2; labelled by s2 and s2 unticked since
TweetKinds == {"uploaded", "labelled", "released"}

TweetOfKind(id, kind) ==
  IF kind = "uploaded" THEN Tweet(id, <<>>)
  ELSE IF kind = "labelled" THEN [LabelledEarlier EXCEPT !.id = id, !.text = id]
  ELSE AssignedTweet([LabelledEarlier EXCEPT !.id = id, !.text = id], <<>>)

\* the selections the checkboxes of the assign modal can build: every student
\* at most once, in the order ticked
Selections ==
  {sel \in UNION {[1..k -> Students] : k \in 0..Cardinality(Students)} :
     \A i, j \in 1..Len(sel) : i # j => sel[i] # sel[j]}

\* the overlap slider: 0 to 100 in steps of 5
OverlapSteps == {5 * k : k \in 0..20}

AssignInit ==
  /\ \E n \in 0..MaxTweets : \E kinds \in [1..n -> TweetKinds] :
        tweets = [i \in 1..n |-> TweetOfKind(ListIds[i], kinds[i])]
  /\ stored = tweets
  /\ now = 1
  /\ last = NoCall(tweets)
  /\ audit = [id \in TweetIds |-> NoAudit]
  /\ other = <<>>

\* the admin presses the button of the assign modal once
AssignNext ==
  /\ now = 1
  /\ \E sel \in Selections, p \in OverlapSteps :
        \E swaps \in [1..Len(Unassigned(tweets)) -> BOOLEAN] :
          handleAutoAssign(sel, p, swaps)

SpecAssign == AssignInit /\ [][AssignNext]_vars

\* handleAutoAssign has run: it stopped at an alert, or issued the bulk update
Pressed == last.op = "autoAssign"
Distributed == Pressed /\ last.outcome = "done"

\* positions of the tweets that had no assigned student before the call
WasUnassigned == {i \in 1..Len(last.before) : Len(last.before[i].assignedTo) = 0}
WasAssigned == {i \in 1..Len(last.before) : Len(last.before[i].assignedTo) > 0}
FromSelection(assignedTo) ==
  \A j \in 1..Len(assignedTo) : Includes(last.given, assignedTo[j])

\* C14: handleAutoAssign leaves every tweet that had an assigned student as it
\* was, in the React state and in the persisted list, for every selection and
\* overlap percentage.
C14_AssignedUntouched ==
  Pressed =>
     /\ Len(tweets) = Len(last.before)
     /\ Len(stored) = Len(last.before)
     /\ \A i \in WasAssigned : tweets[i] = last.before[i] /\ stored[i] = last.before[i]

\* the batch went out on a list that holds assigned and unassigned tweets
C14_Witness ==
  /\ Distributed
  /\ WasAssigned # {}
  /\ \E i \in WasUnassigned : tweets[i] # last.before[i]

\* C15: with overlap 0 and a student selected, handleAutoAssign gives every
\* tweet that had no assigned student exactly one student, one of the selected.
C15_NoOverlapOneEach ==
  (Pressed /\ last.percent = 0 /\ Len(last.given) >= 1) =>
     \A i \in WasUnassigned :
        Len(tweets[i].assignedTo) = 1 /\ FromSelection(tweets[i].assignedTo)

\* three unassigned tweets dealt to two students
C15_Witness ==
  /\ Distributed
  /\ last.percent = 0
  /\ Len(last.given) = 2
  /\ Cardinality(WasUnassigned) = 3
  /\ \A i \in WasUnassigned : Len(tweets[i].assignedTo) = 1

\* C16: with overlap 100 and two or more students selected, handleAutoAssign
\* gives every tweet that had no assigned student exactly two students, both
\* selected and different from each other, wherever the round-robin index is.
C16_FullOverlapTwoDistinct ==
  (Pressed /\ last.percent = 100 /\ Len(last.given) >= 2) =>
     \A i \in WasUnassigned :
        /\ Len(tweets[i].assignedTo) = 2
        /\ tweets[i].assignedTo[1] # tweets[i].assignedTo[2]
        /\ FromSelection(tweets[i].assignedTo)

\* three students, three unassigned tweets: the index wraps inside a pair
C16_Witness ==
  /\ Distributed
  /\ last.percent = 100
  /\ Len(last.given) = 3
  /\ Cardinality(WasUnassigned) = 3
  /\ \E i \in WasUnassigned :
        /\ Len(tweets[i].assignedTo) = 2
        /\ last.given[3] \in {tweets[i].assignedTo[1], tweets[i].assignedTo[2]}
        /\ last.given[1] \in {tweets[i].assignedTo[1], tweets[i].assignedTo[2]}

\* C17: with no student selected handleAutoAssign stops at the alert: no bulk
\* update is issued and neither the React state nor the persisted list changes.
C17_EmptySelectionNoMutation ==
  (Pressed /\ Len(last.given) = 0) =>
     /\ last.outcome = "alert"
     /\ tweets = last.before
     /\ stored = last.before

\* the button was pressed with nothing ticked while tweets were waiting
C17_Witness ==
  /\ Pressed
  /\ last.outcome = "alert"
  /\ Len(last.given) = 0
  /\ WasUnassigned # {}

\* C20: with two or more students selected, of the n tweets that had no
\* assigned student handleAutoAssign gives round(n * p / 100) tweets two
\* students and the other tweets one student, all of them selected students.
C20_OverlapCount ==
  (Distributed /\ Len(last.given) >= 2) =>
     LET n == Cardinality(WasUnassigned)
         rounded == CHOOSE k \in 0..n : 2 * (100 * k - n * last.percent) \in -99..100
     IN /\ Cardinality({i \in WasUnassigned : Len(tweets[i].assignedTo) = 2}) = rounded
        /\ Cardinality({i \in WasUnassigned : Len(tweets[i].assignedTo) = 1}) = n - rounded
        /\ \A i \in WasUnassigned : FromSelection(tweets[i].assignedTo)

\* n * p / 100 falls on a half and is rounded up: 2 tweets at 25 percent
C20_Witness ==
  /\ Distributed
  /\ Len(last.given) >= 2
  /\ Cardinality(WasUnassigned) = 2
  /\ last.percent = 25
  /\ Cardinality({i \in WasUnassigned : Len(tweets[i].assignedTo) = 2}) = 1

\* ------------------------------------------------------ a missing tweet id
\* handleLabelTweet has just been called with an id that is not in the list
LabelledMissing == last.op = "label" /\ ~ HasId(last.before, last.id)

\* C18 as stated: a label for an id that is not in the list is reported to the
\* caller, and the React state and the persisted list stay as they were.
C18_Original ==
  LabelledMissing =>
     /\ last.outcome = "alert"
     /\ tweets = last.before
     /\ stored = last.before

\* ---------------------------------------------------------- two browsers
\* Calls of handleLabelTweet made by the two browsers together.
ClientOps == 2

\* both browsers load the list on mount, before any label is submitted
ClientsInit ==
  /\ \E a1 \in InitAssigned : tweets = <<Tweet("t1", a1), LabelledEarlier>>
  /\ stored = tweets
  /\ other = tweets
  /\ now = 1
  /\ last = NoCall(tweets)
  /\ audit = [id \in TweetIds |-> NoAudit]

\* the student logged in to a browser: the one whose labels its copy of t1
\* holds, any student before the first label
LoggedIn(list, username) == DOMAIN Find(list, "t1").annotations \subseteq {username}

\* the two browsers have different students logged in: the copy of t1 in the
\* other browser holds no label of this student
Elsewhere(list, username) == username \notin DOMAIN Find(list, "t1").annotations

\* handleLabelTweet in the first browser
FirstLabelTweet ==
  /\ now <= ClientOps
  /\ \E u \in Students, l \in LabelOption, f \in FeatureInputs :
        /\ LoggedIn(tweets, u)
        /\ Elsewhere(other, u)
        /\ handleLabelTweet(u, "t1", l, f)

\* handleLabelTweet in the second browser: the same code on that browser's
\* React state, saving to the same store
otherLabelTweet(currentUser, tweetId, label, features) ==
  LET updatedTweets == [i \in 1..Len(other) |->
                          IF other[i].id = tweetId
                          THEN LabelledTweet(other[i], currentUser, label, features)
                          ELSE other[i]]
  IN /\ other' = updatedTweets
     /\ stored' = IF HasId(updatedTweets, tweetId)
                  THEN saveTweet(stored, Find(updatedTweets, tweetId))
                  ELSE stored
     /\ now' = now + 1
     /\ last' = [NoCall(other) EXCEPT !.op = "label", !.id = tweetId, !.user = currentUser,
                                      !.label = label]
     /\ UNCHANGED <<tweets, audit>>

SecondLabelTweet ==
  /\ now <= ClientOps
  /\ \E u \in Students, l \in LabelOption, f \in FeatureInputs :
        /\ LoggedIn(other, u)
        /\ Elsewhere(tweets, u)
        /\ otherLabelTweet(u, "t1", l, f)

ClientsNext == FirstLabelTweet \/ SecondLabelTweet

SpecClients == ClientsInit /\ [][ClientsNext]_vars

\* C19 as stated: when two assigned students have submitted different labels
\* for t1 from two browsers that loaded the list before either submission,
\* the persisted t1 has finalLabel CONFLICT once both writes have landed.
C19_Original ==
  LET mine == Find(tweets, "t1").annotations
      theirs == Find(other, "t1").annotations
      saved == Find(stored, "t1")
  IN (\E u \in DOMAIN mine, v \in DOMAIN theirs :
         /\ u # v
         /\ isAssigned(saved, u)
         /\ isAssigned(saved, v)
         /\ mine[u] # theirs[v])
       => saved.finalLabel = CONFLICT

\* --------------------------------------------- the distributor, continued
\* C21 as stated: with one student selected and an overlap above 0,
\* handleAutoAssign gives every tweet that had no assigned student exactly one
\* entry in assignedTo, and no assignedTo lists a student twice.
C21_Original ==
  (Distributed /\ Len(last.given) = 1 /\ last.percent > 0) =>
     \A i \in WasUnassigned :
        /\ Len(tweets[i].assignedTo) = 1
        /\ \A j, k \in 1..Len(tweets[i].assignedTo) :
              j # k => tweets[i].assignedTo[j] # tweets[i].assignedTo[k]

\* entries of assignedTo the call gave to a student
Slots(student) ==
  Cardinality({pos \in WasUnassigned \X (1..2) :
                 /\ pos[2] <= Len(tweets[pos[1]].assignedTo)
                 /\ tweets[pos[1]].assignedTo[pos[2]] = student})

\* C22: after one handleAutoAssign the numbers of assignedTo entries given to
\* any two of the selected students differ by at most 1, for every number of
\* unassigned tweets, every selection and every overlap percentage.
C22_Balanced ==
  Distributed =>
     \A i, j \in 1..Len(last.given) :
        Slots(last.given[i]) - Slots(last.given[j]) \in -1..1

\* three students share the five entries of three tweets, two of them pairs
C22_Witness ==
  /\ Distributed
  /\ Len(last.given) = 3
  /\ Cardinality(WasUnassigned) = 3
  /\ Slots(last.given[1]) = 2
  /\ Slots(last.given[2]) = 2
  /\ Slots(last.given[3]) = 1

\* ------------------------------------------------- consensus, continued
\* every assigned student has labelled the tweet, all of them with label l
Unanimous(tweet, l) ==
  Len(tweet.assignedTo) > 0 /\ AllLabelled(tweet) /\ AllGivenAre(tweet, l)

\* C23 as stated: a finalLabel of Skip is not kept by handleLabelTweet: when the
\* call leaves every assigned student with the same label L other than Skip,
\* finalLabel is L, and when it leaves assigned students disagreeing, CONFLICT.
C23_Original ==
  (Hit({"label"}) /\ Was.finalLabel = Skip) =>
     /\ \A l \in Categories : Unanimous(Is, l) => Is.finalLabel = l
     /\ Disagree(Is) => Is.finalLabel = CONFLICT

\* some but not all assigned students have labelled, all with one category
PartialAgreement(tweet) ==
  /\ Len(Given(tweet)) >= 1
  /\ Len(Given(tweet)) < Len(tweet.assignedTo)
  /\ \E l \in Categories : AllGivenAre(tweet, l)

\* C24: when a label is recorded (by the student or by an admin edit) and
\* afterwards fewer than all assigned students have labelled, all with the
\* same label other than Skip, finalLabel is what it was before the call.
C24_PartialKeeps ==
  (Hit({"label", "adminLabel"}) /\ PartialAgreement(Is)) => Is.finalLabel = Was.finalLabel

\* a student comes round to the other's label while a third one is missing:
\* the CONFLICT of their earlier disagreement stays
C24_Witness ==
  /\ Hit({"label", "adminLabel"})
  /\ PartialAgreement(Is)
  /\ Disagree(Was)
  /\ Was.finalLabel = CONFLICT
  /\ Is.finalLabel = CONFLICT

\* the students with an entry in each of the three annotation maps
SameKeys(tweet) ==
  /\ DOMAIN tweet.annotationFeatures = DOMAIN tweet.annotations
  /\ DOMAIN tweet.annotationTimestamps = DOMAIN tweet.annotations

\* C25 as stated: in every state, annotations, annotationFeatures and
\* annotationTimestamps of a tweet have the same student keys.
C25_Original == \A i \in 1..Len(tweets) : SameKeys(tweets[i])

\* handleSetFinalLabel never ran on the tweet
NeverDecided(tweet) == ~ audit[tweet.id].decided

\* C26 as stated: in every state, a tweet on which handleSetFinalLabel never ran
\* and whose finalLabel is a label L has an annotation of every assigned
\* student, all equal to L.
C26_Original ==
  \A i \in 1..Len(tweets) :
     (NeverDecided(tweets[i]) /\ Concrete(tweets[i])) =>
        Unanimous(tweets[i], tweets[i].finalLabel) \/ Len(tweets[i].assignedTo) = 0

\* C27 as stated: in every state, a tweet on which handleSetFinalLabel never ran,
\* with at least one assigned student and every assigned student's annotation
\* equal to the same label L other than Skip, has finalLabel L.
C27_Original ==
  \A i \in 1..Len(tweets) : \A l \in Categories :
     (NeverDecided(tweets[i]) /\ Unanimous(tweets[i], l)) => tweets[i].finalLabel = l

\* C27 amended: right after a label is recorded (by the student or by an admin
\* edit) on a tweet whose finalLabel was pending or CONFLICT, if every assigned
\* student's annotation is the same label L other than Skip, finalLabel is L.
C27_ResolvedAfterLabel ==
  (Hit({"label", "adminLabel"}) /\ Open(Was)) =>
     \A l \in Categories : Unanimous(Is, l) => Is.finalLabel = l

\* a tweet left pending by handleAssignmentChange although every assigned
\* student had labelled it is resolved by the next label
C27_Witness ==
  /\ Hit({"label", "adminLabel"})
  /\ Pending(Was)
  /\ \E l \in Categories : Unanimous(Was, l) /\ Unanimous(Is, l) /\ Is.finalLabel = l

\* ----------------------------------------------- two browsers, continued
\* every label in this browser's copy of t1 is in the persisted t1, unchanged
Kept(list) ==
  LET held == Find(list, "t1").annotations
      saved == Find(stored, "t1").annotations
  IN \A u \in DOMAIN held : u \in DOMAIN saved /\ saved[u] = held[u]

\* C28 as stated: with two browsers that each hold their own copy of the list,
\* a call made in one browser never removes or changes the persisted label of
\* a student who submitted it in the other: every label either browser has
\* recorded is still in the persisted tweet.
C28_Original == Kept(tweets) /\ Kept(other)

\* --------------------------------------------------------- failing writes
\* Calls made in a run in which a write to the store can fail.
WriteOps == 2

\* apiRequest: the write lands when fetch resolves with response.ok; otherwise
\* apiRequest throws and the store is as it was
apiRequest(ok, written) == IF ok THEN written ELSE stored

\* handleLabelTweet with the outcome of its saveTweet: setTweets has run when
\* saveTweet throws, and nothing catches
requestLabelTweet(ok, currentUser, tweetId, label, features) ==
  LET updatedTweets == [i \in 1..Len(tweets) |->
                          IF tweets[i].id = tweetId
                          THEN LabelledTweet(tweets[i], currentUser, label, features)
                          ELSE tweets[i]]
  IN /\ tweets' = updatedTweets
     /\ stored' = IF HasId(updatedTweets, tweetId)
                  THEN apiRequest(ok, saveTweet(stored, Find(updatedTweets, tweetId)))
                  ELSE stored
     /\ Called("label", IF ok THEN "done" ELSE "thrown", tweetId, currentUser, label, <<>>, 0)

\* handleDeleteTweet with the outcome of its deleteTweet
requestDeleteTweet(ok, tweetId) ==
  /\ tweets' = deleteTweet(tweets, tweetId)
  /\ stored' = apiRequest(ok, deleteTweet(stored, tweetId))
  /\ Called("delete", IF ok THEN "done" ELSE "thrown", tweetId, Undefined, Undefined, <<>>, 0)

\* for (const id of ids) await deleteTweet(id)
RECURSIVE DeleteEach(_, _)
DeleteEach(list, ids) ==
  IF Len(ids) = 0 THEN list ELSE DeleteEach(deleteTweet(list, Head(ids)), Tail(ids))

\* handleDeleteAllTweets: setTweets([]) first, then one deleteTweet per id; the
\* first `landed` deletes reach the store and the next one, if any, throws and
\* ends the loop
handleDeleteAllTweets(landed) ==
  LET allTweetIds == [i \in 1..Len(tweets) |-> tweets[i].id]
  IN /\ tweets' = <<>>
     /\ stored' = DeleteEach(stored, SubSeq(allTweetIds, 1, landed))
     /\ Called("deleteAll", IF landed = Len(allTweetIds) THEN "done" ELSE "thrown",
               Undefined, Undefined, Undefined, <<>>, 0)

WriteLabelTweet ==
  /\ now <= WriteOps
  /\ \E ok \in BOOLEAN, u \in Students, id \in Targets, l \in LabelOption, f \in FeatureInputs :
        requestLabelTweet(ok, u, id, l, f)
WriteDeleteTweet ==
  /\ now <= WriteOps
  /\ \E ok \in BOOLEAN, id \in Targets : requestDeleteTweet(ok, id)
DeleteAllTweets ==
  /\ now <= WriteOps
  /\ \E landed \in 0..Len(tweets) : handleDeleteAllTweets(landed)

WritesNext ==
  \/ WriteLabelTweet
  \/ WriteDeleteTweet
  \/ DeleteAllTweets

SpecWrites == Init /\ [][WritesNext]_vars

\* C29 as stated: after every handler, also one whose write to the store
\* failed, the list in memory equals the persisted list.
C29_Original == tweets = stored

\* ------------------------------------------------------- submission order
\* Every assigned student labels t1 once, in any order: a student who is
\* assigned to t1 and has no entry yet submits a label.
OnceLabelTweet ==
  \E u \in Students, l \in LabelOption, f \in FeatureInputs :
     /\ HasId(tweets, "t1")
     /\ isAssigned(Find(tweets, "t1"), u)
     /\ u \notin DOMAIN Find(tweets, "t1").annotations
     /\ handleLabelTweet(u, "t1", l, f)

SpecOnce == Init /\ [][OnceLabelTweet]_vars

\* the tweet after the students of `order` have submitted, one after another,
\* the labels and reasons recorded in `given`
RECURSIVE InOrder(_, _, _)
InOrder(tweet, order, given) ==
  IF Len(order) = 0 THEN tweet
  ELSE InOrder(LabelledTweet(tweet, Head(order), given.annotations[Head(order)],
                             given.annotationFeatures[Head(order)]),
               Tail(order), given)

\* every assigned student has submitted
AllSubmitted(tweet) == Len(tweet.assignedTo) > 0 /\ AllLabelled(tweet)

\* C30: once every assigned student of a tweet that started pending has
\* submitted one label, finalLabel is the one the same labels give when the
\* students submit in the order of assignedTo, whatever order they came in.
C30_OrderIndependent ==
  LET t1 == Find(tweets, "t1")
  IN AllSubmitted(t1) =>
        t1.finalLabel = InOrder(Tweet("t1", t1.assignedTo), t1.assignedTo, t1).finalLabel

\* three students, the first of assignedTo submitting last and disagreeing
\* with the two who agreed before: CONFLICT comes with the last submission,
\* where the order of assignedTo has it at the second
C30_Witness ==
  LET t1 == Find(tweets, "t1")
  IN /\ AllSubmitted(t1)
     /\ Len(t1.assignedTo) = 3
     /\ last.user = t1.assignedTo[1]
     /\ Pending(Was)
     /\ t1.finalLabel = CONFLICT

====
